---- MODULE Spec2Model ----
(***************************************************************************)
(* State-machine model of dags/scripts/fetch_and_store.py: the retrying    *)
(* upstream client (_request_with_retries), the row normalizer             *)
(* (fetch_daily_adjusted), the persistence sink (upsert_rows) and the      *)
(* orchestrator (run_once).  Every function is modelled step by step; the  *)
(* variable entry says which function the behaviour starts in, so that     *)
(* each function can be exercised on its own inputs as well as inside      *)
(* run_once.                                                               *)
(***************************************************************************)
EXTENDS Integers, Sequences, FiniteSets, TLC

VARIABLES
    entry,      \* function the behaviour starts in
    pc,         \* position of the single thread of control
    exc,        \* exception in flight, "none" when there is none
    apiKeySet,  \* os.environ holds ALPHAVANTAGE_API_KEY
    upstream,   \* which response bodies the provider can serve
    symbols,    \* run_once: its argument
    idx,        \* run_once: position of sym in symbols
    status,     \* run_once: per position, stage of that symbol's pipeline
    failLog,    \* run_once: per position, log.exception calls
    infoLog,    \* run_once: per position, "upserted" log.info calls
    found,      \* table stock_prices when the current turn of the loop began
    runs,       \* number of run_once calls made so far
    metered,    \* whether the requests.get calls are being counted
    issued,     \* requests.get calls counted so far
    sym,        \* fetch_daily_adjusted: symbol
    retries,    \* _request_with_retries: retries
    attempt,    \* _request_with_retries: attempt
    requests,   \* requests.get calls issued by the current call
    failures,   \* attempts of the current call that ended in the except branch
    lastErr,    \* exception caught by the latest except branch
    waits,      \* wait computed in each except branch, as <<num, den>>
    sleeps,     \* time.sleep calls of the current call, each with its wait
    payload,    \* value returned by _request_with_retries
    series,     \* fetch_daily_adjusted: items of series not yet visited
    seen,       \* records of series visited so far
    rows,       \* fetch_daily_adjusted: rows
    skipLog,    \* "Skipping malformed row" warnings of the current call
    batch,      \* upsert_rows: rows
    pos,        \* upsert_rows: position of row in rows
    tx,         \* transaction opened by engine.begin()
    rowErrLog,  \* "Upsert failed" log.error calls of the current call
    written,    \* positions of rows whose conn.execute returned normally
    count,      \* value returned by upsert_rows
    store,      \* table stock_prices: a set of rows
    clock,      \* database clock read by NOW()
    calls,      \* number of upsert_rows calls made so far
    before,     \* table stock_prices when the current upsert_rows call began
    prev        \* whether the current call repeats the rows of the call before
                \* it, and the "Upsert failed" count of that call

runVars == <<symbols, idx, status, failLog, infoLog, found, runs>>
reqVars == <<retries, attempt, requests, failures, lastErr, waits, sleeps, payload>>
fetchVars == <<sym, series, seen, rows, skipLog>>
upsertVars == <<batch, pos, tx, rowErrLog, written, count, store, clock, calls, before, prev>>
envVars == <<entry, apiKeySet, upstream, metered, issued>>
vars == <<pc, exc, envVars, runVars, reqVars, fetchVars, upsertVars>>

(***************************************************************************)
(* Bounds of the model.                                                    *)
(***************************************************************************)
MaxSymbols == 3
MaxRecords == 2
MaxRetries == 5
MaxCalls == 2
MaxRuns == 2

(***************************************************************************)
(* Program constants.                                                      *)
(***************************************************************************)
DefaultRetries == 5
\* backoff = 1.5 = BackoffNum / BackoffDen
BackoffNum == 3
BackoffDen == 2

RECURSIVE Pow(_, _)
Pow(b, n) == IF n = 0 THEN 1 ELSE b * Pow(b, n - 1)

\* wait = backoff ** attempt, as the fraction <<numerator, denominator>>
WaitLinear(a) == <<BackoffNum * a, BackoffDen>>
Wait(a) == <<Pow(BackoffNum, a), Pow(BackoffDen, a)>>

Less(p, q) == p[1] * q[2] < q[1] * p[2]

(***************************************************************************)
(* Raw provider data.  A JSON value of a record field is absent (or null), *)
(* the empty string, an integer numeral, a decimal numeral n.5, or text    *)
(* that is no numeral.                                                     *)
(***************************************************************************)
Absent == [k |-> "absent", v |-> 0]
Empty == [k |-> "empty", v |-> 0]
Junk == [k |-> "junk", v |-> 0]
IntTok(n) == [k |-> "int", v |-> n]
DecTok(n) == [k |-> "dec", v |-> n]

Fields == {"open", "high", "low", "close", "volume"}
FloatFields == {"open", "high", "low", "close"}

\* vals.get(key) or 0: None and "" are falsy
Falsy(tok) == tok.k \in {"absent", "empty"}

\* float(x): floats are counted in halves, so float("1") = 2 and float("1.5") = 3
FloatRaises(tok) == ~Falsy(tok) /\ tok.k = "junk"
Float(tok) ==
    CASE Falsy(tok) -> 0
      [] tok.k = "int" -> 2 * tok.v
      [] tok.k = "dec" -> 2 * tok.v + 1
      [] OTHER -> 0

\* int(x) of a string: only an integer numeral parses
IntRaises(tok) == ~Falsy(tok) /\ tok.k # "int"
Int_(tok) == IF ~Falsy(tok) /\ tok.k = "int" THEN tok.v ELSE 0

NoFields == [f \in Fields |-> Absent]
Vals(o, h, l, c, v) ==
    [map |-> TRUE, f |-> [open |-> o, high |-> h, low |-> l, close |-> c, volume |-> v]]
NotMap == [map |-> FALSE, f |-> NoFields]

Good1 == Vals(IntTok(1), DecTok(1), IntTok(1), IntTok(1), IntTok(10))
Good2 == Vals(IntTok(1), Absent, Empty, IntTok(2), IntTok(20))
JunkClose == Vals(IntTok(1), DecTok(1), IntTok(1), Junk, IntTok(10))
FracVolume == Vals(IntTok(1), DecTok(1), IntTok(1), IntTok(1), DecTok(10))

RawRecords == {Good1, Good2, JunkClose, FracVolume, NotMap}

\* trading dates, and the keys a provider's series can carry: a date, or a
\* date followed by a time of day
Dates == {"2024-01-02", "2024-01-03"}
DateKeys == Dates \cup {"2024-01-02 16:00:00"}

Symbols == {"A", "B", "C"}

\* the items of a JSON object keyed by date: the keys are distinct
RECURSIVE SeriesOfLen(_)
SeriesOfLen(n) ==
    IF n = 0 THEN {<<>>}
    ELSE {Append(s, [date |-> d, vals |-> r]) :
            s \in SeriesOfLen(n - 1), d \in DateKeys, r \in RawRecords}

DistinctDates(s) == \A i, j \in 1..Len(s) : i # j => s[i].date # s[j].date

AllSeries ==
    {s \in UNION {SeriesOfLen(n) : n \in 0..MaxRecords} : DistinctDates(s)}

\* a response body: a JSON object that may hold "Note", "Error Message" and
\* a "Time Series ..." key whose value is an object (ts = "map") or not
Body(n, e, t, s) == [note |-> n, error |-> e, ts |-> t, items |-> s]
NoBody == Body(FALSE, FALSE, "absent", <<>>)

SoftBodies ==
    {Body(TRUE, FALSE, "absent", <<>>), Body(FALSE, TRUE, "absent", <<>>),
     Body(TRUE, FALSE, "map", <<[date |-> "2024-01-02", vals |-> Good1]>>)}

RichBodies ==
    SoftBodies \cup {Body(FALSE, FALSE, "absent", <<>>), Body(FALSE, FALSE, "null", <<>>)}
        \cup {Body(FALSE, FALSE, "map", s) : s \in AllSeries}

CoarseSeries ==
    {<<>>,
     <<[date |-> "2024-01-02", vals |-> Good1]>>,
     <<[date |-> "2024-01-02", vals |-> Good2]>>,
     <<[date |-> "2024-01-02", vals |-> JunkClose]>>,
     <<[date |-> "2024-01-02", vals |-> Good1], [date |-> "2024-01-03", vals |-> Good2]>>}

CoarseBodies ==
    SoftBodies \cup {Body(FALSE, FALSE, "absent", <<>>), Body(FALSE, FALSE, "null", <<>>)}
        \cup {Body(FALSE, FALSE, "map", s) : s \in CoarseSeries}

\* the response bodies of a 200 response
Served ==
    CASE upstream = "rich" -> RichBodies
      [] upstream = "coarse" -> CoarseBodies
      [] OTHER -> {}

\* failures of requests.get, raise_for_status and resp.json
HardErrors == {"transport", "http", "badjson"}

None == [some |-> FALSE, body |-> NoBody]
Some(b) == [some |-> TRUE, body |-> b]

(***************************************************************************)
(* Frames of the functions that are not running.                           *)
(***************************************************************************)
NoTx == [state |-> "none", work |-> {}, now |-> 0]
NoPrev == [same |-> FALSE, errors |-> 0]

RunIdle ==
    /\ symbols = <<>>
    /\ idx = 0
    /\ status = <<>>
    /\ failLog = <<>>
    /\ infoLog = <<>>
    /\ found = {}
    /\ runs = 0

ReqIdle ==
    /\ retries = 0
    /\ attempt = 0
    /\ requests = 0
    /\ failures = 0
    /\ lastErr = "none"
    /\ waits = <<>>
    /\ sleeps = <<>>
    /\ payload = None

FetchIdle ==
    /\ sym = ""
    /\ series = <<>>
    /\ seen = <<>>
    /\ rows = <<>>
    /\ skipLog = 0

UpsertIdle ==
    /\ batch = <<>>
    /\ pos = 0
    /\ tx = NoTx
    /\ rowErrLog = 0
    /\ written = {}
    /\ count = 0
    /\ before = {}
    /\ prev = NoPrev

(***************************************************************************)
(* _request_with_retries(params, retries, backoff)                         *)
(***************************************************************************)
\* lines 22-25: a 200 response whose body carries "Note" or "Error Message"
SoftFailureNoteOnly(body) == body.note

SoftFailure(body) == body.note \/ body.error

SoftError(body) == IF body.note THEN "note" ELSE "errmsg"

\* line 30: if attempt == retries
LastAttemptOffByOne(a, r) == a = r + 1
LastAttempt(a, r) == a = r

\* the call itself: the frame of a fresh call with the given retries
request_with_retries_call(r) ==
    /\ retries' = r
    /\ attempt' = 1
    /\ requests' = 0
    /\ failures' = 0
    /\ lastErr' = "none"
    /\ waits' = <<>>
    /\ sleeps' = <<>>
    /\ payload' = None
    /\ pc' = "req_loop"

\* the except branch of one attempt (lines 27-32, up to the sleep)
request_except(err) ==
    /\ failures' = failures + 1
    /\ lastErr' = err
    /\ waits' = Append(waits, Wait(attempt))
    /\ payload' = payload
    /\ exc' = IF LastAttempt(attempt, retries) THEN err ELSE "none"
    /\ pc' = IF LastAttempt(attempt, retries) THEN "req_raised" ELSE "req_sleep"

\* one turn of the for loop, up to the return, the raise or the sleep; with
\* the range exhausted the function falls off its end and returns None
request_with_retries_attempt ==
    /\ pc = "req_loop"
    /\ IF attempt > retries
       THEN /\ pc' = "req_returned"
            /\ payload' = None
            /\ UNCHANGED <<requests, issued, failures, lastErr, waits, exc>>
       ELSE /\ requests' = requests + 1
            /\ issued' = IF metered THEN issued + 1 ELSE issued
            /\ \/ \E err \in HardErrors : request_except(err)
               \/ \E body \in Served :
                    IF SoftFailure(body)
                    THEN request_except(SoftError(body))
                    ELSE /\ payload' = Some(body)
                         /\ pc' = "req_returned"
                         /\ UNCHANGED <<failures, lastErr, waits, exc>>
    /\ UNCHANGED <<retries, attempt, sleeps>>
    /\ UNCHANGED <<entry, apiKeySet, upstream, metered, runVars, fetchVars, upsertVars>>

\* line 32: time.sleep(wait), then the next turn of the loop
request_with_retries_sleep ==
    /\ pc = "req_sleep"
    /\ sleeps' = Append(sleeps, waits[Len(waits)])
    /\ attempt' = attempt + 1
    /\ pc' = "req_loop"
    /\ UNCHANGED <<retries, requests, failures, lastErr, waits, payload, exc>>
    /\ UNCHANGED <<envVars, runVars, fetchVars, upsertVars>>

(***************************************************************************)
(* fetch_daily_adjusted(symbol, api_key)                                   *)
(***************************************************************************)
\* lines 54-58: some conversion of the record raises; vals.get itself raises
\* when vals is no mapping
RecordRaisesFloatsOnly(vals) ==
    \/ ~vals.map
    \/ \E f \in FloatFields : FloatRaises(vals.f[f])

RecordRaises(vals) ==
    \/ ~vals.map
    \/ \E f \in FloatFields : FloatRaises(vals.f[f])
    \/ IntRaises(vals.f["volume"])

\* lines 51-59: the dict appended to rows
Row(s, d, vals) ==
    [symbol |-> s, ts |-> d,
     open |-> Float(vals.f["open"]), high |-> Float(vals.f["high"]),
     low |-> Float(vals.f["low"]), close |-> Float(vals.f["close"]),
     volume |-> Int_(vals.f["volume"])]

\* line 43: payload = _request_with_retries(params), retries at its default
fetch_daily_adjusted_call(s) ==
    /\ sym' = s
    /\ series' = <<>>
    /\ seen' = <<>>
    /\ rows' = <<>>
    /\ skipLog' = 0
    /\ request_with_retries_call(DefaultRetries)

\* the locals of _request_with_retries are gone once it has returned or raised
request_with_retries_leave ==
    /\ retries' = 0
    /\ attempt' = 0
    /\ requests' = 0
    /\ failures' = 0
    /\ lastErr' = "none"
    /\ waits' = <<>>
    /\ sleeps' = <<>>

\* lines 44-48: find the "Time Series" key and take its items; payload.keys()
\* raises on None, a missing key raises ValueError, series.items() raises
\* when the value is no mapping
fetch_daily_adjusted_parse ==
    /\ pc = "req_returned"
    /\ entry # "request"
    /\ IF ~payload.some
       THEN /\ exc' = "AttributeError"
            /\ pc' = "fetch_raised"
            /\ series' = series
       ELSE IF payload.body.ts = "absent"
       THEN /\ exc' = "ValueError"
            /\ pc' = "fetch_raised"
            /\ series' = series
       ELSE IF payload.body.ts # "map"
       THEN /\ exc' = "AttributeError"
            /\ pc' = "fetch_raised"
            /\ series' = series
       ELSE /\ exc' = exc
            /\ pc' = "norm_loop"
            /\ series' = payload.body.items
    /\ request_with_retries_leave
    /\ UNCHANGED <<payload, sym, seen, rows, skipLog>>
    /\ UNCHANGED <<envVars, runVars, upsertVars>>

\* the error raised by _request_with_retries leaves fetch_daily_adjusted
fetch_daily_adjusted_raise ==
    /\ pc = "req_raised"
    /\ entry # "request"
    /\ pc' = "fetch_raised"
    /\ request_with_retries_leave
    /\ UNCHANGED <<exc, payload, envVars, runVars, fetchVars, upsertVars>>

\* lines 49-61: one turn of the loop over series.items()
fetch_daily_adjusted_record ==
    /\ pc = "norm_loop"
    /\ series # <<>>
    /\ LET item == Head(series)
       IN  /\ IF RecordRaises(item.vals)
              THEN /\ skipLog' = skipLog + 1
                   /\ rows' = rows
              ELSE /\ rows' = Append(rows, Row(sym, item.date, item.vals))
                   /\ skipLog' = skipLog
           /\ seen' = Append(seen, item)
    /\ series' = Tail(series)
    /\ UNCHANGED <<pc, exc, sym>>
    /\ UNCHANGED <<envVars, runVars, reqVars, upsertVars>>

\* line 62: return rows
fetch_daily_adjusted_return ==
    /\ pc = "norm_loop"
    /\ series = <<>>
    /\ pc' = "fetch_returned"
    /\ UNCHANGED <<exc, envVars, runVars, reqVars, fetchVars, upsertVars>>

(***************************************************************************)
(* upsert_rows(rows)                                                       *)
(***************************************************************************)
\* line 74: the conflict target (symbol, ts)
SameSymbol(r, row) == r.symbol = row.symbol
SameKey(r, row) == r.symbol = row.symbol /\ r.ts = row.ts

Stored(row, now) ==
    [symbol |-> row.symbol, ts |-> row.ts, open |-> row.open, high |-> row.high,
     low |-> row.low, close |-> row.close, volume |-> row.volume,
     updated_at |-> now]

\* the table emptied before the statement of lines 69-80
ExecuteReplaceAll(table, row, now) == {Stored(row, now)}

\* lines 69-80 without the ON CONFLICT clause
ExecuteInsertOnly(table, row, now) == table \cup {Stored(row, now)}

\* lines 69-80 with volume = stock_prices.volume + EXCLUDED.volume
ExecuteAddVolume(table, row, now) ==
    IF \E r \in table : SameKey(r, row)
    THEN {IF SameKey(r, row)
          THEN [Stored(row, now) EXCEPT !.volume = r.volume + row.volume]
          ELSE r : r \in table}
    ELSE table \cup {Stored(row, now)}

\* lines 69-80: INSERT ... ON CONFLICT (symbol, ts) DO UPDATE SET ...; a new
\* row takes updated_at from the column default, the current time
Execute(table, row, now) ==
    IF \E r \in table : SameKey(r, row)
    THEN {IF SameKey(r, row) THEN Stored(row, now) ELSE r : r \in table}
    ELSE table \cup {Stored(row, now)}

\* the call itself: a fresh frame
upsert_rows_call(rs, same) ==
    /\ batch' = rs
    /\ pos' = 0
    /\ tx' = NoTx
    /\ rowErrLog' = 0
    /\ written' = {}
    /\ count' = 0
    /\ calls' = calls + 1
    /\ before' = store
    /\ prev' = [same |-> same, errors |-> rowErrLog]
    /\ pc' = "upsert_start"
    /\ UNCHANGED <<store, clock>>

\* line 66: if not rows
NoRowsNever(rs) == FALSE
NoRows(rs) == rs = <<>>

\* lines 66-68 and 81: return 0 on no rows, else open the transaction;
\* engine.begin() raises when the database cannot be reached.  NOW() is the
\* start time of the transaction.
upsert_rows_begin ==
    /\ pc = "upsert_start"
    /\ IF NoRows(batch)
       THEN /\ count' = 0
            /\ pc' = "upsert_returned"
            /\ UNCHANGED <<exc, tx, clock, pos>>
       ELSE \E connected \in BOOLEAN :
              IF connected
              THEN /\ tx' = [state |-> "open", work |-> store, now |-> clock + 1]
                   /\ clock' = clock + 1
                   /\ pos' = 1
                   /\ pc' = "upsert_loop"
                   /\ UNCHANGED <<exc, count>>
              ELSE /\ exc' = "OperationalError"
                   /\ pc' = "upsert_raised"
                   /\ UNCHANGED <<tx, clock, pos, count>>
    /\ UNCHANGED <<batch, rowErrLog, written, store, calls, before, prev>>
    /\ UNCHANGED <<envVars, runVars, reqVars, fetchVars>>

\* a transaction in which a statement has failed: PostgreSQL, whose dialect
\* the statement of lines 69-80 is written in, executes nothing more in it
Aborted(t) == t.state = "aborted"

\* lines 82-86: one turn of the loop.  The database accepts the statement or
\* rejects it; a rejected statement leaves the transaction aborted, and every
\* later statement of an aborted transaction is rejected too.
upsert_rows_execute ==
    /\ pc = "upsert_loop"
    /\ pos <= Len(batch)
    /\ \E accepted \in BOOLEAN :
         IF Aborted(tx) \/ ~accepted
         THEN /\ rowErrLog' = rowErrLog + 1
              /\ tx' = [tx EXCEPT !.state = "aborted"]
              /\ written' = written
         ELSE /\ tx' = [tx EXCEPT !.work = Execute(tx.work, batch[pos], tx.now)]
              /\ rowErrLog' = rowErrLog
              /\ written' = written \cup {pos}
    /\ pos' = pos + 1
    /\ UNCHANGED <<pc, exc, batch, count, store, clock, calls, before, prev>>
    /\ UNCHANGED <<envVars, runVars, reqVars, fetchVars>>

\* line 87: return len(list(rows))
ReturnCommitted(rs, errors) == Len(rs) - errors
ReturnCount(rs, errors) == Len(rs)

\* line 81: leaving the with block ends the transaction
EndTxLeaveOpen(t) == t
EndTx(t) == NoTx

\* the end of the with block commits; the commit of an aborted transaction
\* rolls it back.  Then line 87.
upsert_rows_commit ==
    /\ pc = "upsert_loop"
    /\ pos > Len(batch)
    /\ store' = IF Aborted(tx) THEN store ELSE tx.work
    /\ tx' = EndTx(tx)
    /\ count' = ReturnCount(batch, rowErrLog)
    /\ pc' = "upsert_returned"
    /\ UNCHANGED <<exc, batch, pos, rowErrLog, written, clock, calls, before, prev>>
    /\ UNCHANGED <<envVars, runVars, reqVars, fetchVars>>

(***************************************************************************)
(* run_once(symbols)                                                       *)
(***************************************************************************)
\* called: upsert_rows has been called for the symbol; touched: the table is
\* not the one its turn of the loop found
Pending ==
    [stage |-> "PENDING", rows |-> <<>>, errors |-> 0, why |-> "none",
     called |-> FALSE, touched |-> FALSE]

\* the locals of the finished calls are dead once the loop body is left
DropFrames ==
    /\ retries' = 0
    /\ attempt' = 0
    /\ requests' = 0
    /\ failures' = 0
    /\ lastErr' = "none"
    /\ waits' = <<>>
    /\ sleeps' = <<>>
    /\ payload' = None
    /\ sym' = ""
    /\ series' = <<>>
    /\ seen' = <<>>
    /\ rows' = <<>>
    /\ skipLog' = 0
    /\ batch' = <<>>
    /\ pos' = 0
    /\ tx' = NoTx
    /\ rowErrLog' = 0
    /\ written' = {}
    /\ count' = 0
    /\ before' = {}
    /\ prev' = NoPrev
    /\ found' = {}

\* line 91: api_key = os.environ["ALPHAVANTAGE_API_KEY"], outside the try
run_once_start ==
    /\ pc = "run_start"
    /\ IF apiKeySet
       THEN /\ idx' = 1
            /\ pc' = "run_loop"
            /\ exc' = exc
       ELSE /\ idx' = idx
            /\ pc' = "run_raised"
            /\ exc' = "KeyError"
    /\ UNCHANGED <<symbols, status, failLog, infoLog, found, runs>>
    /\ UNCHANGED <<envVars, reqVars, fetchVars, upsertVars>>

\* line 92: the loop ends
run_once_return ==
    /\ pc = "run_loop"
    /\ idx > Len(symbols)
    /\ pc' = "run_done"
    /\ UNCHANGED <<exc, envVars, runVars, reqVars, fetchVars, upsertVars>>

\* lines 92-95: the next symbol; rows = fetch_daily_adjusted(sym, api_key)
run_once_fetch ==
    /\ pc = "run_loop"
    /\ idx <= Len(symbols)
    /\ status' = [status EXCEPT ![idx].stage = "FETCHING"]
    /\ fetch_daily_adjusted_call(symbols[idx])
    /\ found' = store
    /\ UNCHANGED <<exc, symbols, idx, failLog, infoLog, runs>>
    /\ UNCHANGED <<envVars, upsertVars>>

\* line 96: count = upsert_rows(rows)
run_once_upsert ==
    /\ pc = "fetch_returned"
    /\ entry = "run_once"
    /\ status' = [status EXCEPT ![idx].stage = "UPSERTING", ![idx].rows = rows,
                                 ![idx].called = TRUE]
    /\ upsert_rows_call(rows, FALSE)
    /\ UNCHANGED <<exc, symbols, idx, failLog, infoLog, found, runs>>
    /\ UNCHANGED <<envVars, reqVars, fetchVars>>

\* line 92: the for loop turns to the symbol after this one
NextIndexSkip(i) == i + 2
NextIndex(i) == i + 1

\* line 97: log.info("%s: upserted %s rows", sym, count)
run_once_log ==
    /\ pc = "upsert_returned"
    /\ entry = "run_once"
    /\ infoLog' = [infoLog EXCEPT ![idx] = @ + 1]
    /\ status' = [status EXCEPT ![idx].stage = "DONE", ![idx].errors = rowErrLog,
                                 ![idx].touched = (store # found)]
    /\ idx' = NextIndex(idx)
    /\ pc' = "run_loop"
    /\ DropFrames
    /\ UNCHANGED <<exc, symbols, failLog, runs, store, clock, calls>>
    /\ UNCHANGED envVars

\* where an exception raised in the loop body goes
HandlerNone(p) == "run_raised"
HandlerFallThrough(p) == "fetch_returned"
Handler(p) == "run_loop"

\* lines 98-99: except Exception: log.exception("Symbol %s failed: %s", sym, e)
run_once_except ==
    /\ pc \in {"fetch_raised", "upsert_raised"}
    /\ entry = "run_once"
    /\ pc' = Handler(pc)
    /\ IF Handler(pc) = "run_loop"
       THEN /\ failLog' = [failLog EXCEPT ![idx] = @ + 1]
            /\ status' = [status EXCEPT ![idx].stage = "FAILED", ![idx].why = exc,
                                         ![idx].touched = (store # found)]
            /\ exc' = "none"
            /\ idx' = NextIndex(idx)
       ELSE UNCHANGED <<failLog, status, exc, idx>>
    /\ DropFrames
    /\ UNCHANGED <<symbols, infoLog, runs, store, clock, calls>>
    /\ UNCHANGED envVars

(***************************************************************************)
(* Inputs.                                                                 *)
(***************************************************************************)
SymbolOrder == <<"A", "B", "C">>

\* the symbol lists: A, B, C, A, B, ... cut at every length up to MaxSymbols
SymbolList(n) == [i \in 1..n |-> SymbolOrder[((i - 1) % Len(SymbolOrder)) + 1]]

\* rows as fetch_daily_adjusted builds them
RowPool == {Row("A", d, v) : d \in Dates, v \in {Good1, Good2}}

RECURSIVE BatchesOfLen(_)
BatchesOfLen(n) ==
    IF n = 0 THEN {<<>>}
    ELSE {Append(b, r) : b \in BatchesOfLen(n - 1), r \in RowPool}

Batches == UNION {BatchesOfLen(n) : n \in 0..MaxRecords}

UniqueKeys(table) == \A r, q \in table : SameKey(r, q) => r = q

\* the tables the sink can find: the uniqueness constraint holds in them
Tables == {t \in SUBSET {Stored(r, 0) : r \in RowPool} : UniqueKeys(t)}

InitRequest ==
    /\ entry = "request"
    /\ apiKeySet = TRUE
    /\ upstream = "coarse"
    /\ RunIdle /\ FetchIdle /\ UpsertIdle
    /\ store = {}
    /\ clock = 0
    /\ calls = 0
    /\ metered = FALSE
    /\ issued = 0
    /\ exc = "none"
    /\ retries \in 0..MaxRetries
    /\ attempt = 1
    /\ requests = 0
    /\ failures = 0
    /\ lastErr = "none"
    /\ waits = <<>>
    /\ sleeps = <<>>
    /\ payload = None
    /\ pc = "req_loop"

NextRequest ==
    \/ request_with_retries_attempt
    \/ request_with_retries_sleep

SpecRequest == InitRequest /\ [][NextRequest]_vars

\* run_once(symbols) on an empty table
InitRunOnce ==
    /\ entry = "run_once"
    /\ pc = "run_start"
    /\ exc = "none"
    /\ apiKeySet \in BOOLEAN
    /\ upstream = "coarse"
    /\ \E n \in 0..MaxSymbols :
         /\ symbols = SymbolList(n)
         /\ status = [i \in 1..n |-> Pending]
         /\ failLog = [i \in 1..n |-> 0]
         /\ infoLog = [i \in 1..n |-> 0]
    /\ idx = 0
    /\ found = {}
    /\ runs = 1
    /\ ReqIdle /\ FetchIdle /\ UpsertIdle
    /\ store = {}
    /\ clock = 0
    /\ calls = 0
    /\ issued = 0

Init == InitRunOnce /\ metered = FALSE

Next ==
    \/ run_once_start
    \/ run_once_fetch
    \/ run_once_upsert
    \/ run_once_log
    \/ run_once_except
    \/ run_once_return
    \/ request_with_retries_attempt
    \/ request_with_retries_sleep
    \/ fetch_daily_adjusted_parse
    \/ fetch_daily_adjusted_raise
    \/ fetch_daily_adjusted_record
    \/ fetch_daily_adjusted_return
    \/ upsert_rows_begin
    \/ upsert_rows_execute
    \/ upsert_rows_commit

Spec == Init /\ [][Next]_vars

\* run_once(symbols) with its requests.get calls counted
InitBudget == InitRunOnce /\ metered = TRUE

SpecBudget == InitBudget /\ [][Next]_vars

\* every call made in the loop body returns or raises in finite time
SpecBudgetFair == SpecBudget /\ WF_vars(Next)

\* stock_dag.py lines 14-16: the next run of the task calls run_once again,
\* with the list and the environment of the run before it, on the table
\* that run left
run_once_again ==
    /\ pc \in {"run_done", "run_raised"}
    /\ runs < MaxRuns
    /\ runs' = runs + 1
    /\ pc' = "run_start"
    /\ exc' = "none"
    /\ idx' = 0
    /\ status' = [i \in 1..Len(symbols) |-> Pending]
    /\ failLog' = [i \in 1..Len(symbols) |-> 0]
    /\ infoLog' = [i \in 1..Len(symbols) |-> 0]
    /\ UNCHANGED <<symbols, found>>
    /\ UNCHANGED <<envVars, reqVars, fetchVars, upsertVars>>

InitRuns ==
    /\ entry = "run_once"
    /\ pc = "run_start"
    /\ exc = "none"
    /\ apiKeySet \in BOOLEAN
    /\ upstream = "coarse"
    /\ symbols \in {<<"A">>, <<"A", "B">>}
    /\ status = [i \in 1..Len(symbols) |-> Pending]
    /\ failLog = [i \in 1..Len(symbols) |-> 0]
    /\ infoLog = [i \in 1..Len(symbols) |-> 0]
    /\ idx = 0
    /\ found = {}
    /\ runs = 1
    /\ ReqIdle /\ FetchIdle /\ UpsertIdle
    /\ store = {}
    /\ clock = 0
    /\ calls = 0
    /\ metered = FALSE
    /\ issued = 0

NextRuns == Next \/ run_once_again

SpecRuns == InitRuns /\ [][NextRuns]_vars

\* fetch_daily_adjusted(symbol, api_key) on its own, against every response
InitFetch ==
    /\ entry = "fetch"
    /\ exc = "none"
    /\ apiKeySet = TRUE
    /\ upstream = "rich"
    /\ RunIdle /\ UpsertIdle
    /\ store = {}
    /\ clock = 0
    /\ calls = 0
    /\ metered = FALSE
    /\ issued = 0
    /\ sym \in Symbols
    /\ series = <<>>
    /\ seen = <<>>
    /\ rows = <<>>
    /\ skipLog = 0
    /\ retries = DefaultRetries
    /\ attempt = 1
    /\ requests = 0
    /\ failures = 0
    /\ lastErr = "none"
    /\ waits = <<>>
    /\ sleeps = <<>>
    /\ payload = None
    /\ pc = "req_loop"

NextFetch ==
    \/ request_with_retries_attempt
    \/ request_with_retries_sleep
    \/ fetch_daily_adjusted_parse
    \/ fetch_daily_adjusted_raise
    \/ fetch_daily_adjusted_record
    \/ fetch_daily_adjusted_return

SpecFetch == InitFetch /\ [][NextFetch]_vars

\* upsert_rows(rows) on its own: up to MaxCalls calls in a row on any table,
\* each with any rows or with the rows of the call before it
upsert_rows_again ==
    /\ pc = "upsert_returned"
    /\ entry = "upsert"
    /\ calls < MaxCalls
    /\ \/ upsert_rows_call(batch, TRUE)
       \/ \E rs \in Batches : rs # batch /\ upsert_rows_call(rs, FALSE)
    /\ UNCHANGED <<exc, envVars, runVars, reqVars, fetchVars>>

InitUpsert ==
    /\ entry = "upsert"
    /\ exc = "none"
    /\ apiKeySet = TRUE
    /\ upstream = "none"
    /\ RunIdle /\ ReqIdle /\ FetchIdle
    /\ store \in Tables
    /\ clock = 0
    /\ calls = 1
    /\ metered = FALSE
    /\ issued = 0
    /\ batch \in Batches
    /\ pos = 0
    /\ tx = NoTx
    /\ rowErrLog = 0
    /\ written = {}
    /\ count = 0
    /\ before = store
    /\ prev = NoPrev
    /\ pc = "upsert_start"

NextUpsert ==
    \/ upsert_rows_begin
    \/ upsert_rows_execute
    \/ upsert_rows_commit
    \/ upsert_rows_again

SpecUpsert == InitUpsert /\ [][NextUpsert]_vars

(***************************************************************************)
(* Properties of _request_with_retries, checked under SpecRequest.         *)
(***************************************************************************)
Ended == pc \in {"req_returned", "req_raised"}

\* C1: a call whose every request attempt fails ends by raising the last
\* error after exactly retries request attempts; no call ever issues more
\* than retries requests.
RetryExhaustion ==
    /\ requests <= retries
    /\ pc = "req_raised" =>
         /\ requests = retries
         /\ failures = retries
         /\ exc = lastErr
    /\ Ended /\ requests >= 1 /\ failures = requests => pc = "req_raised"

RetryExhaustionWitness ==
    /\ pc = "req_raised"
    /\ retries = DefaultRetries
    /\ requests = DefaultRetries
    /\ failures = DefaultRetries

SameFraction(p, q) == p[1] * q[2] = q[1] * p[2]

\* C2: a call that returns a payload after f failed attempts has issued
\* f + 1 requests and slept f times, the a-th sleep lasting backoff^a, each
\* sleep longer than the one before it; the payload is a response body that
\* carries neither a note nor an error message.  With f = 3 this is the
\* fetch that fails three times and then succeeds.
RetryPolicy ==
    pc = "req_returned" /\ payload.some =>
      /\ requests = failures + 1
      /\ Len(sleeps) = failures
      /\ \A a \in 1..Len(sleeps) :
           SameFraction(sleeps[a], <<Pow(BackoffNum, a), Pow(BackoffDen, a)>>)
      /\ \A a \in 1..(Len(sleeps) - 1) : Less(sleeps[a], sleeps[a + 1])
      /\ payload.body \in Served
      /\ ~payload.body.note /\ ~payload.body.error

RetryPolicyWitness ==
    /\ pc = "req_returned"
    /\ payload.some
    /\ failures = 3
    /\ requests = 4
    /\ sleeps = <<<<3, 2>>, <<9, 4>>, <<27, 8>>>>

(***************************************************************************)
(* Properties of run_once, checked under Spec.                             *)
(***************************************************************************)
Positions == 1..Len(symbols)

Settled(i) == status[i].stage \in {"DONE", "FAILED"}

\* position i handed rows to upsert_rows and none of the writes failed
Wrote(i) == status[i].stage = "DONE" /\ status[i].errors = 0

Holds(table, row) ==
    \E s \in table :
      /\ SameKey(s, row)
      /\ s.open = row.open /\ s.high = row.high /\ s.low = row.low
      /\ s.close = row.close /\ s.volume = row.volume

\* a later position wrote the key of row again
Rewritten(i, row) ==
    \E j \in Positions :
      /\ j > i
      /\ Wrote(j)
      /\ \E k \in 1..Len(status[j].rows) : SameKey(status[j].rows[k], row)

\* C3: with the API key set, no error leaves run_once; when run_once ends,
\* every symbol of the list has been taken through its pipeline, a symbol
\* that failed at any stage has been logged exactly once, and the rows of
\* every symbol whose fetch and writes succeeded are in the store (with the
\* values of the latest such write of their key), whatever happened to the
\* symbols before and after it.
OrchestratorIsolation ==
    /\ apiKeySet => pc # "run_raised"
    /\ pc = "run_done" =>
         \A i \in Positions :
           /\ Settled(i)
           /\ status[i].stage = "FAILED" => failLog[i] = 1 /\ infoLog[i] = 0
           /\ status[i].stage = "DONE" => failLog[i] = 0 /\ infoLog[i] = 1
           /\ Wrote(i) =>
                \A k \in 1..Len(status[i].rows) :
                  \/ Rewritten(i, status[i].rows[k])
                  \/ Holds(store, status[i].rows[k])

OrchestratorIsolationWitness ==
    /\ pc = "run_done"
    /\ symbols = <<"A", "B", "C">>
    /\ status[2].stage = "FAILED"
    /\ status[2].why \in HardErrors \cup {"note", "errmsg"}
    /\ failLog = <<0, 1, 0>>
    /\ Wrote(1) /\ Len(status[1].rows) = 2
    /\ Wrote(3) /\ Len(status[3].rows) = 2
    /\ \A i \in {1, 3} : \A k \in 1..2 : Holds(store, status[i].rows[k])

\* C4: no error leaves run_once, whatever the environment holds, and
\* run_once does not end before every symbol has been attempted.
NothingPropagates ==
    /\ pc # "run_raised"
    /\ pc \in {"run_done", "run_raised"} => \A i \in Positions : Settled(i)

(***************************************************************************)
(* Properties of upsert_rows, checked under SpecUpsert.                    *)
(***************************************************************************)
ValueFields(r) ==
    [symbol |-> r.symbol, ts |-> r.ts, open |-> r.open, high |-> r.high,
     low |-> r.low, close |-> r.close, volume |-> r.volume]

Values(table) == {ValueFields(r) : r \in table}

InBatch(r) == \E k \in 1..Len(batch) : SameKey(r, batch[k])

\* the current call repeats the rows of the call before it, and no write of
\* either call failed
AppliedTwice ==
    /\ pc = "upsert_returned"
    /\ prev.same /\ prev.errors = 0
    /\ rowErrLog = 0
    /\ batch # <<>>

\* C5: applying the same rows a second time leaves the table as the first
\* application left it, key for key and value field for value field; only
\* updated_at of the rows written moves, and it moves forward.
UpsertIdempotent ==
    AppliedTwice =>
      /\ Values(store) = Values(before)
      /\ Cardinality(store) = Cardinality(before)
      /\ \A r \in store :
           IF InBatch(r)
           THEN \A q \in before : SameKey(q, r) => q.updated_at < r.updated_at
           ELSE r \in before

UpsertIdempotentWitness ==
    /\ AppliedTwice
    /\ Len(batch) = 1
    /\ calls = 2
    /\ Cardinality(store) = 2
    /\ store # before

LastOfKey(k) == \A j \in (k + 1)..Len(batch) : ~SameKey(batch[j], batch[k])

\* C6: the table never holds two rows with one (symbol, ts) key; after a
\* call none of whose writes failed, every key of the batch has exactly one
\* row, carrying all five value fields of the last batch row of that key,
\* and every other row is as it was.
UpsertMerge ==
    /\ UniqueKeys(store)
    /\ UniqueKeys(tx.work)
    /\ pc = "upsert_returned" /\ rowErrLog = 0 =>
         /\ \A k \in 1..Len(batch) :
              /\ LastOfKey(k) => Holds(store, batch[k])
              /\ Cardinality({s \in store : SameKey(s, batch[k])}) = 1
         /\ \A r \in before : ~InBatch(r) => r \in store
         /\ \A r \in store : ~InBatch(r) => r \in before

UpsertMergeWitness ==
    /\ pc = "upsert_returned"
    /\ rowErrLog = 0
    /\ Len(batch) = 1
    /\ Cardinality(store) = Cardinality(before)
    /\ \E q \in before :
         /\ SameKey(q, batch[1])
         /\ q.close # batch[1].close
         /\ q.volume # batch[1].volume
         /\ Holds(store, batch[1])

\* C7: after a call in which the write of some row failed, every failure
\* has been logged, every row has been executed, and every row whose own
\* write did not fail is in the table.
PartialSuccess ==
    pc = "upsert_returned" /\ batch # <<>> =>
      /\ rowErrLog + Cardinality(written) = Len(batch)
      /\ \A p \in written : \E s \in store : SameKey(s, batch[p])

\* C9: upsert_rows returns the number of rows it was given, however many of
\* their writes failed; given no rows it returns 0, opens no transaction and
\* leaves the table as it was.
UpsertReturnsAttempted ==
    pc = "upsert_returned" =>
      /\ count = Len(batch)
      /\ batch = <<>> => count = 0 /\ store = before /\ tx = NoTx /\ pos = 0

UpsertReturnsAttemptedWitness ==
    /\ pc = "upsert_returned"
    /\ Len(batch) = 2
    /\ rowErrLog >= 1
    /\ count = 2

(***************************************************************************)
(* Properties of a symbol without data, checked under Spec.                *)
(***************************************************************************)
EmptySeries(b) == b.ts = "map" /\ b.items = <<>>

NoSeries(b) == b.ts = "absent"

\* the pipeline of a symbol that is no error and writes nothing
QuietPipeline ==
    /\ pc \in {"req_returned", "norm_loop", "fetch_returned", "upsert_start",
               "upsert_returned"}
    /\ exc = "none"
    /\ rows = <<>>
    /\ skipLog = 0
    /\ tx = NoTx
    /\ pc \in {"upsert_start", "upsert_returned"} => batch = <<>> /\ store = before
    /\ pc = "upsert_returned" => count = 0

\* C8 as claimed: a successful response without records, its series empty
\* or missing altogether, is no error: zero rows, a no-op upsert_rows with 0
\* rows attempted, no failure path.
NoDataIsNoError ==
    payload.some /\ (EmptySeries(payload.body) \/ NoSeries(payload.body)) =>
      QuietPipeline

\* C8 as amended: a successful response whose series is present and empty is
\* no error: zero rows, a no-op upsert_rows with 0 rows attempted, no failure
\* path.  A successful response without any series makes
\* fetch_daily_adjusted raise ValueError before upsert_rows is called.
EmptySeriesIsNoError ==
    /\ payload.some /\ EmptySeries(payload.body) => QuietPipeline
    /\ payload.some /\ NoSeries(payload.body) =>
         /\ pc \in {"req_returned", "fetch_raised"}
         /\ pc = "fetch_raised" => exc = "ValueError"
         /\ rows = <<>>
         /\ batch = <<>>
         /\ tx = NoTx

EmptySeriesIsNoErrorWitness ==
    /\ entry = "run_once"
    /\ pc = "upsert_returned"
    /\ payload.some
    /\ EmptySeries(payload.body)
    /\ count = 0
    /\ status[idx].stage = "UPSERTING"

(***************************************************************************)
(* Properties of fetch_daily_adjusted, checked under SpecFetch.            *)
(***************************************************************************)
\* a record that is no field map, or one of whose fields holds text that is
\* no number of the field's type
Malformed(vals) ==
    \/ ~vals.map
    \/ \E f \in FloatFields : vals.f[f].k \notin {"absent", "empty", "int", "dec"}
    \/ vals.f["volume"].k \notin {"absent", "empty", "int"}

MalformedCount(s) == Cardinality({i \in 1..Len(s) : Malformed(s[i].vals)})

\* C10: of the N records of a successful fetch's series, k of them
\* malformed, exactly N - k become rows, each with the symbol asked for and
\* the record's date key, exactly k warnings are logged, and no malformed
\* record makes fetch_daily_adjusted raise.
NormalizationDropsMalformed ==
    /\ pc \in {"norm_loop", "fetch_returned"} =>
         /\ skipLog = MalformedCount(seen)
         /\ Len(rows) = Len(seen) - MalformedCount(seen)
         /\ \A k \in 1..Len(rows) :
              /\ rows[k].symbol = sym
              /\ rows[k].symbol \in Symbols
              /\ rows[k].ts \in DateKeys
    /\ pc = "fetch_returned" => seen = payload.body.items
    /\ pc = "fetch_raised" => ~(payload.some /\ payload.body.ts = "map")

NormalizationDropsMalformedWitness ==
    /\ pc = "fetch_returned"
    /\ Len(payload.body.items) = 2
    /\ MalformedCount(payload.body.items) = 1
    /\ Len(rows) = 1
    /\ skipLog = 1

(***************************************************************************)
(* Soft provider errors, checked under SpecRequest.                        *)
(***************************************************************************)
SoftErrors == {"note", "errmsg"}

\* C11: a 200 response whose body carries a note or an error message is
\* never returned; it is a failed attempt like a transport failure or a
\* non-2xx status: it has used up one request of the budget, the wait
\* computed for it is backoff^attempt, and it is followed by the sleep and
\* another attempt, or on the last attempt by the raise of that error.
SoftErrorRetried ==
    /\ payload.some => ~payload.body.note /\ ~payload.body.error
    /\ lastErr \in SoftErrors \cup HardErrors \cup {"none"}
    /\ pc \in {"req_sleep", "req_raised"} =>
         /\ lastErr # "none"
         /\ ~payload.some
         /\ requests = attempt
         /\ failures = attempt
         /\ Len(waits) = attempt
         /\ SameFraction(waits[attempt],
                         <<Pow(BackoffNum, attempt), Pow(BackoffDen, attempt)>>)
         /\ (pc = "req_raised") = (attempt = retries)
         /\ pc = "req_raised" => exc = lastErr
         /\ pc = "req_sleep" => exc = "none"

SoftErrorRetriedWitness ==
    /\ pc = "req_returned"
    /\ payload.some
    /\ lastErr \in SoftErrors
    /\ failures = 2
    /\ requests = 3
    /\ Len(sleeps) = 2

(***************************************************************************)
(* The ts of a row, checked under SpecFetch.                               *)
(***************************************************************************)
\* the calendar-date part of a date key of the provider
CalendarDate(k) == IF k = "2024-01-02 16:00:00" THEN "2024-01-02" ELSE k

\* C12: the ts of every normalized row is the calendar date of its record,
\* without a time of day, so that the records of one day get one ts
\* whatever time of day their keys carry.
DateCanonical ==
    pc \in {"norm_loop", "fetch_returned"} =>
      /\ \A k \in 1..Len(rows) : rows[k].ts \in Dates
      /\ \A i, j \in 1..Len(rows) :
           CalendarDate(rows[i].ts) = CalendarDate(rows[j].ts) =>
             rows[i].ts = rows[j].ts

(***************************************************************************)
(* The order of the rows of a batch, checked under SpecUpsert.             *)
(***************************************************************************)
Orders(n) ==
    {f \in [1..n -> 1..n] : \A i, j \in 1..n : i # j => f[i] # f[j]}

Reordered(b, f) == [i \in 1..Len(b) |-> b[f[i]]]

\* the statement of lines 69-80 executed for the rows of rs in their order
RECURSIVE ExecuteAll(_, _, _)
ExecuteAll(table, rs, now) ==
    IF rs = <<>> THEN table
    ELSE ExecuteAll(Execute(table, Head(rs), now), Tail(rs), now)

\* rows as one fetch yields them: one symbol, no date twice
OneFetch(b) ==
    \A i, j \in 1..Len(b) :
      i # j => b[i].symbol = b[j].symbol /\ b[i].ts # b[j].ts

\* C13: whatever table upsert_rows finds and whatever rows one fetch has
\* produced, the table it leaves is the table that every other order of the
\* same rows leaves: with no failed write it holds the rows of the batch
\* executed in any order, with a failed write it is the table found.
OrderIndependent ==
    pc = "upsert_returned" /\ OneFetch(batch) =>
      \A f \in Orders(Len(batch)) :
        store = IF rowErrLog = 0
                THEN ExecuteAll(before, Reordered(batch, f), clock)
                ELSE before

OrderIndependentWitness ==
    /\ pc = "upsert_returned"
    /\ Len(batch) = 2
    /\ OneFetch(batch)
    /\ rowErrLog = 0
    /\ Cardinality(before) = 1
    /\ Cardinality(store) = 2
    /\ \E q \in before : q.ts = batch[2].ts /\ q.close # batch[2].close

(***************************************************************************)
(* The order of the steps of run_once, checked under Spec.                 *)
(***************************************************************************)
RequestSteps == {"req_loop", "req_sleep", "req_returned", "req_raised"}

FetchSteps == RequestSteps \cup {"norm_loop", "fetch_returned", "fetch_raised"}

UpsertSteps == {"upsert_start", "upsert_loop", "upsert_returned", "upsert_raised"}

\* C14: the symbols are taken in list order, one at a time: every symbol
\* before the current one is DONE or FAILED and every symbol after it is
\* untouched; requests are made for the current symbol only and before any
\* write; upsert_rows runs only after the fetch of the current symbol has
\* returned a payload and every record of it has been normalized, and it
\* runs on the rows of that symbol.
SequentialPipeline ==
    /\ pc \in {"run_start", "run_raised"} => idx = 0
    /\ pc \notin {"run_start", "run_raised"} => idx \in 1..(Len(symbols) + 1)
    /\ pc \in FetchSteps \cup UpsertSteps => idx \in Positions
    /\ \A i \in Positions :
         /\ i < idx => Settled(i)
         /\ i > idx => status[i] = Pending
         /\ i = idx /\ pc = "run_loop" => status[i] = Pending
         /\ i = idx /\ pc \in FetchSteps =>
              /\ status[i].stage = "FETCHING"
              /\ sym = symbols[i]
              /\ batch = <<>> /\ pos = 0 /\ tx = NoTx /\ written = {}
         /\ i = idx /\ pc \in UpsertSteps =>
              /\ status[i].stage = "UPSERTING"
              /\ sym = symbols[i]
              /\ requests = 0 /\ attempt = 0
              /\ payload.some /\ payload.body.ts = "map"
              /\ series = <<>> /\ seen = payload.body.items
              /\ batch = rows /\ batch = status[i].rows
              /\ \A k \in 1..Len(batch) : batch[k].symbol = symbols[i]
              /\ pc # "upsert_raised" => exc = "none"
    /\ pc \in {"run_start", "run_loop", "run_done", "run_raised"} =>
         /\ ReqIdle /\ FetchIdle /\ UpsertIdle

SequentialPipelineWitness ==
    /\ symbols = <<"A", "B", "C">>
    /\ idx = 2
    /\ pc = "upsert_loop"
    /\ pos = 2
    /\ written = {1}
    /\ status[1].stage = "DONE"
    /\ Len(status[1].rows) = 2
    /\ status[3] = Pending

(***************************************************************************)
(* The sleeps of _request_with_retries, checked under SpecRequest.         *)
(***************************************************************************)
\* C15: the call sleeps after each failed attempt that another attempt
\* follows, before that attempt and for the wait computed at the failure; it
\* does not sleep after a successful attempt nor after the failed attempt
\* that exhausts the budget.  A call with f failed attempts has slept f
\* times when it returns a payload and f - 1 times when it raises.
SleepDiscipline ==
    /\ Len(sleeps) <= Len(waits)
    /\ sleeps = SubSeq(waits, 1, Len(sleeps))
    /\ pc = "req_loop" /\ attempt <= retries =>
         /\ failures = attempt - 1
         /\ Len(sleeps) = failures
    /\ pc = "req_sleep" =>
         /\ attempt < retries
         /\ Len(sleeps) = failures - 1
    /\ pc = "req_returned" /\ payload.some => Len(sleeps) = failures
    /\ Ended /\ ~payload.some /\ failures >= 1 =>
         /\ pc = "req_raised"
         /\ Len(sleeps) = failures - 1

SleepDisciplineWitness ==
    /\ pc = "req_raised"
    /\ failures = 3
    /\ Len(sleeps) = 2
    /\ Len(waits) = 3

(***************************************************************************)
(* The end of run_once, checked under SpecBudget.                          *)
(***************************************************************************)
RunEnded == pc \in {"run_done", "run_raised"}

\* C16: run_once on a finite list ends: until it has ended there is a next
\* step to take; when it has ended every symbol of the list is DONE or
\* FAILED; and it never issues more than retries requests per symbol of the
\* list.
RunCompletes ==
    /\ ~RunEnded => ENABLED Next
    /\ RunEnded => \A i \in Positions : Settled(i)
    /\ issued <= DefaultRetries * Len(symbols)

\* what is left of C16 when the API key is set; RunEnds is checked under
\* SpecBudgetFair
RunCompletesWithKey ==
    /\ ~RunEnded => ENABLED Next
    /\ RunEnded /\ apiKeySet => \A i \in Positions : Settled(i)
    /\ issued <= DefaultRetries * Len(symbols)

RunEnds == <>RunEnded

(***************************************************************************)
(* The transactions of upsert_rows, checked under Spec.                    *)
(***************************************************************************)
\* the upsert_rows call of position i has opened its transaction
Opened(i) ==
    /\ status[i].called
    /\ status[i].rows # <<>>
    /\ i < idx => status[i].why # "OperationalError"
    /\ i = idx => pc \in {"upsert_loop", "upsert_returned"}

\* C17: a transaction is open only while the loop of an upsert_rows call
\* runs, never between calls; each call that has rows opens exactly one,
\* executes all its writes in it and ends it once, the table changing only
\* at that end; no transaction holds writes for two symbols.
OneTransactionPerCall ==
    /\ (tx # NoTx) = (pc = "upsert_loop")
    /\ pc = "upsert_loop" =>
         /\ tx.state \in {"open", "aborted"}
         /\ tx.now = clock
         /\ store = before
         /\ \A r \in tx.work : r \in store \/ (r.updated_at = tx.now /\ r.symbol = sym)
    /\ pc = "upsert_start" => store = before /\ written = {}
    /\ clock = Cardinality({i \in Positions : i <= idx /\ Opened(i)})
    /\ pc = "upsert_returned" =>
         \A p \in written :
           store = before
             \/ \E r \in store : SameKey(r, batch[p]) /\ r.updated_at = clock
    /\ \A r, q \in store \cup tx.work :
         r.updated_at = q.updated_at => r.symbol = q.symbol

OneTransactionPerCallWitness ==
    /\ pc = "upsert_returned"
    /\ idx = 2
    /\ clock = 2
    /\ written = {1, 2}
    /\ Cardinality(store) = 4
    /\ Cardinality({r \in store : r.updated_at = 2}) = 2
    /\ tx = NoTx

(***************************************************************************)
(* The table over several runs of run_once, checked under SpecRuns.        *)
(***************************************************************************)
KeysOf(table) == {<<r.symbol, r.ts>> : r \in table}

\* C18: no step of any run of run_once removes a (symbol, ts) key from the
\* table: a step that changes the table is the end of an upsert_rows call,
\* and every row it changes is a row of the batch, inserted under a new key
\* or written over the row of its key.
RowsNeverDeleted ==
    [][/\ KeysOf(store) \subseteq KeysOf(store')
       /\ store' # store =>
            /\ pc = "upsert_loop"
            /\ \A q \in store' \ store : InBatch(q)
            /\ \A r \in store \ store' : InBatch(r)]_vars

RowsNeverDeletedWitness ==
    /\ runs = 2
    /\ pc = "upsert_returned"
    /\ Cardinality(before) = 1
    /\ Cardinality(store) = 2
    /\ before \cap store = {}
    /\ KeysOf(before) \subseteq KeysOf(store)

(***************************************************************************)
(* A fetch that fails, checked under SpecRuns.                             *)
(***************************************************************************)
\* what fetch_daily_adjusted raises
FetchErrors == HardErrors \cup SoftErrors \cup {"ValueError", "AttributeError"}

\* C19: when the fetch of a symbol raises, be it the last error of the
\* exhausted retries or the error of an unexpected response, the error goes
\* straight to the except branch of run_once: upsert_rows has not been and
\* is not called for that symbol in that run, no transaction is opened, and
\* the table is the one that symbol's turn found, the rows of earlier runs
\* included.
FailedFetchLeavesStore ==
    /\ exc \in FetchErrors => pc \in {"req_raised", "fetch_raised"}
    /\ pc \in {"req_raised", "fetch_raised"} =>
         /\ exc \in FetchErrors
         /\ status[idx].stage = "FETCHING"
         /\ ~status[idx].called
         /\ UpsertIdle
         /\ store = found
    /\ \A i \in Positions :
         status[i].stage = "FAILED" /\ status[i].why \in FetchErrors =>
           /\ ~status[i].called
           /\ ~status[i].touched
           /\ status[i].rows = <<>>

FailedFetchLeavesStoreWitness ==
    /\ runs = 2
    /\ pc = "run_done"
    /\ symbols = <<"A", "B">>
    /\ status[1].stage = "FAILED"
    /\ status[1].why \in HardErrors
    /\ status[2].stage = "FAILED"
    /\ status[2].why = "ValueError"
    /\ Cardinality({r \in store : r.symbol = "A"}) = 2
    /\ Cardinality({r \in store : r.symbol = "B"}) = 1

(***************************************************************************)
(* The outcome of _request_with_retries, checked under SpecRequest.        *)
(***************************************************************************)
\* C20: whatever retries is, 0 included, a call has issued at least one
\* request when it ends, and it ends by returning the body of a successful
\* attempt or by raising; it never returns without a payload.
DefiniteOutcome ==
    Ended =>
      /\ requests >= 1
      /\ pc = "req_returned" => payload.some /\ ~SoftFailure(payload.body)
      /\ pc = "req_raised" => exc # "none"

====
